---- MODULE Spec2Model ----
(***************************************************************************)
(* Ingestion and aggregation engine of the Grades repository.              *)
(*                                                                         *)
(* The relational store (Course, Assignment, Student, Submission) is the   *)
(* variable db; the two ingestion paths (write_assignment_scores_to_db and *)
(* write_assignment_scores_optimized), the Gradescope source loop and the  *)
(* sync orchestrator are the actions.  A database session is a snapshot of *)
(* the committed store taken when the session first reads (snap), the      *)
(* session's own view after its flushed and pending writes (pend), and a   *)
(* commit that applies the difference to the committed store under the     *)
(* store's unique constraints.                                             *)
(***************************************************************************)
EXTENDS Integers, Sequences, FiniteSets, TLC

(***************************************************************************)
(* Bounds of the model.                                                    *)
(***************************************************************************)
\* number of ingestion runs started in one behaviour
MaxRuns == 3

\* the same where two assignments are ingested
MaxRacingRuns == 5

\* calls (ingestions and script rebuilds) and sync_all invocations in a
\* behaviour that rebuilds the summary
MaxSummaryRuns == 3
MaxSyncs == 2

\* ingestion runs in a behaviour over two courses or over changing exports
MaxCourseRuns == 3

\* Python None in a numeric column (scores and counts are never negative)
None == 0 - 1
\* Python None in a string column
NoneS == "None"

\* operating-system processes that may ingest at the same time
Procs == {"p1", "p2"}

\* the caller of GradescopeSync.sync_course
SourceProc == "s1"
AllProcs == Procs \cup {SourceProc}

(***************************************************************************)
(* Text.  Assignment names are sequences of characters so that the         *)
(* categorizer's normalisation and substring search are computed.          *)
(***************************************************************************)
LowerMap ==
  [c \in {"A", "B", "C", "E", "I", "L", "P", "Q", "R", "T"} |->
     CASE c = "A" -> "a" [] c = "B" -> "b" [] c = "C" -> "c" [] c = "E" -> "e"
       [] c = "I" -> "i" [] c = "L" -> "l" [] c = "P" -> "p" [] c = "Q" -> "q"
       [] c = "R" -> "r" [] c = "T" -> "t"]

\* str.lower() on one character
LowerCh(c) == IF c \in DOMAIN LowerMap THEN LowerMap[c] ELSE c

\* str.lower()
Lower(s) == [i \in 1..Len(s) |-> LowerCh(s[i])]

\* str.replace('_', ' ')
ReplaceUnderscore(s) == [i \in 1..Len(s) |-> IF s[i] = "_" THEN " " ELSE s[i]]

RECURSIVE LStrip(_)
LStrip(s) == IF s # <<>> /\ Head(s) = " " THEN LStrip(Tail(s)) ELSE s

RECURSIVE RStrip(_)
RStrip(s) ==
  IF s # <<>> /\ s[Len(s)] = " " THEN RStrip(SubSeq(s, 1, Len(s) - 1)) ELSE s

\* str.strip() on a character sequence
StripSeq(s) == RStrip(LStrip(s))

\* str.startswith
StartsWith(s, p) == Len(p) <= Len(s) /\ SubSeq(s, 1, Len(p)) = p

\* the Python operator "p in s" on strings
Contains(s, p) ==
  \E i \in 1..(Len(s) - Len(p) + 1) : SubSeq(s, i, i + Len(p) - 1) = p

Practice == <<"p", "r", "a", "c", "t", "i", "c", "e">>

\* content of the legacy category file when it cannot be loaded
LegacyCategories == <<>>

RECURSIVE LastMatch(_, _)
\* the loop without "return" at the first match: the last matching rule wins
LastMatch(categories, normalized) ==
  IF categories = <<>> THEN NoneS
  ELSE LET cat == categories[Len(categories)]
       IN IF \E k \in 1..Len(cat.patterns) :
                Contains(Lower(normalized), Lower(cat.patterns[k]))
          THEN cat.name
          ELSE LastMatch(SubSeq(categories, 1, Len(categories) - 1),
                         normalized)

RECURSIVE FirstMatch(_, _)
\* the nested loop over categories and their patterns
FirstMatch(categories, normalized) ==
  IF categories = <<>> THEN NoneS
  ELSE LET cat == Head(categories)
       IN IF \E k \in 1..Len(cat.patterns) :
                Contains(Lower(normalized), Lower(cat.patterns[k]))
          THEN cat.name
          ELSE FirstMatch(Tail(categories), normalized)

\* _categorize_assignment without the test for practice assignments
CategorizeAlsoPractice(assignment_name, course_categories) ==
  FirstMatch(IF course_categories # <<>> THEN course_categories
             ELSE LegacyCategories,
             StripSeq(ReplaceUnderscore(assignment_name)))

\* _categorize_assignment
Categorize(assignment_name, course_categories) ==
  LET normalized == StripSeq(ReplaceUnderscore(assignment_name))
      categories == IF course_categories # <<>> THEN course_categories
                    ELSE LegacyCategories
  IN IF StartsWith(Lower(normalized), Practice) THEN NoneS
     ELSE FirstMatch(categories, normalized)

(***************************************************************************)
(* Numeric text of an export cell.                                         *)
(***************************************************************************)
NumText == [t \in {"0", "3", "5", "7", "8", "10"} |->
              CASE t = "0" -> 0 [] t = "3" -> 3 [] t = "5" -> 5
                [] t = "7" -> 7 [] t = "8" -> 8 [] t = "10" -> 10]

\* float(v) / int(v) succeeds
Parses(v) == v \in DOMAIN NumText

\* _num and _int of write_assignment_scores_to_db
Num(v) == IF v = "" THEN None ELSE IF Parses(v) THEN NumText[v] ELSE None

\* float(v or 0) / int(v or 0) of write_assignment_scores_optimized, for a
\* cell on which the conversion does not raise
FloatOrZero(v) == IF v = "" THEN 0 ELSE NumText[v]

\* the conversion float(v or 0) raises ValueError
FloatRaises(v) == v # "" /\ ~Parses(v)

\* str.strip() on an export cell
Strip(v) == IF v = " " THEN "" ELSE v

(***************************************************************************)
(* Inputs: courses, the assignments a source lists, course configurations  *)
(* and score exports.                                                      *)
(***************************************************************************)
CourseIds == {"c1"}

LabOne == <<"L", "a", "b", " ", "1">>
PracticeLab == <<"P", "r", "a", "c", "t", "i", "c", "e", "_", "L", "a", "b">>

\* (assignment id, assignment name) pairs of the source's assignment list
LabAssignment == [id |-> "101", name |-> LabOne]
PracticeAssignment == [id |-> "102", name |-> PracticeLab]
QuizAssignment == [id |-> "103", name |-> <<"Q", "u", "i", "z">>]
Catalog == {LabAssignment, PracticeAssignment}

\* the assignments page of the course, in page order
Listing == <<LabAssignment, PracticeAssignment, QuizAssignment>>

LabRules == <<[name |-> "Labs", patterns |-> << <<"l", "a", "b">> >>]>>

\* course_config: the configured course, and a call without configuration
CfgLabs == [name |-> "CS10", assignment_categories |-> LabRules]
CfgNone == [name |-> NoneS, assignment_categories |-> <<>>]

\* one row of a Gradescope score export (csv.DictReader row)
Row(name, sid, email, status, total, maxp, views) ==
  [name |-> name, sid |-> sid, email |-> email, status |-> status,
   total |-> total, maxp |-> maxp, views |-> views]

RowA8 == Row("Ann", "1", "a@x.com", "Graded", "8", "10", "3")
RowA5 == Row("Ann", "1", "a@x.com", "Graded", "5", "10", "3")
RowAEmpty == Row("Ann", "1", "a@x.com", "Graded", "", "10", "")
RowABad == Row("Ann", "1", "a@x.com", "Graded", "abc", "10", "3")
RowAMissing == Row("Ann", "1", "a@x.com", "Missing", "", "10", "")
RowBMissing == Row("Bob", "2", "b@x.com", "Missing", "", "", "")
RowB7 == Row("Bob", "2", "b@x.com", "Graded", "7", "10", "3")
\* another person carrying Ann's sid
RowC5 == Row("Cat", "1", "c@x.com", "Graded", "5", "10", "3")
\* a row without sid
RowD5 == Row("Dan", "", "d@x.com", "Graded", "5", "10", "3")

\* Ann's row when the assignment is out of 5 points
RowA5of5 == Row("Ann", "1", "a@x.com", "Graded", "5", "5", "3")
\* Ann's row under another legal name, under another sid, without a name
RowAnna8 == Row("Anna", "1", "a@x.com", "Graded", "8", "10", "3")
RowA8Sid9 == Row("Ann", "9", "a@x.com", "Graded", "8", "10", "3")
RowA8NoName == Row("", "1", "a@x.com", "Graded", "8", "10", "3")

\* what the environment can hand to an ingestion call in one behaviour: each
\* family holds the exports and configurations of one kind of scenario
InputSets ==
  { \* re-ingestion of rows that turn Missing, a row without sid
    [exports |-> {<<RowA8, RowBMissing>>, <<RowA8, RowB7>>, <<RowD5>>},
     configs |-> {CfgLabs}, catalog |-> {LabAssignment}, runs |-> MaxRuns,
     paths |-> {"legacy", "optimized"}],
    \* sid and email as identity, two exports that differ in one score
    [exports |-> {<<RowA8, RowC5>>, <<RowA5, RowC5>>, <<RowA8>>, <<RowC5>>},
     configs |-> {CfgLabs}, catalog |-> {LabAssignment}, runs |-> MaxRuns,
     paths |-> {"legacy", "optimized"}],
    \* empty and unparsable cells, an empty export
    [exports |-> {<<RowAEmpty>>, <<RowABad, RowB7>>, <<RowAMissing>>, <<>>},
     configs |-> {CfgLabs}, catalog |-> {LabAssignment}, runs |-> MaxRuns,
     paths |-> {"legacy", "optimized"}],
    \* calls with and without course configuration
    [exports |-> {<<RowA8>>, <<>>},
     configs |-> {CfgLabs, CfgNone}, catalog |-> {LabAssignment},
     runs |-> MaxRuns,
     paths |-> {"legacy", "optimized"}],
    \* two assignments of one course, ingested by the scripts that call
    \* write_assignment_scores_to_db
    [exports |-> {<<RowA8>>, <<RowA5>>},
     configs |-> {CfgLabs}, catalog |-> Catalog, runs |-> MaxRacingRuns,
     paths |-> {"legacy"}] }

(***************************************************************************)
(* The relational store.                                                   *)
(***************************************************************************)
Tables ==
  {"courses", "assignments", "students", "submissions", "summary_sheets"}

EmptyStore == [t \in Tables |-> {}]

Ids(rows) == {r.id : r \in rows}

\* UNIQUE (key): no two rows agree on the key
UniqueOn(rows, Key(_)) == \A a, b \in rows : Key(a) = Key(b) => a = b

CourseKey(c) == c.gradescope_course_id
SidEmailKey(s) == <<s.sid, s.email>>
EmailCourseKey(s) == <<s.course_id, s.email>>
AssignmentStudentKey(s) == <<s.assignment_id, s.student_id>>
SummaryKey(s) == <<s.course_id, s.student_id, s.assignment_id>>

VARIABLES
  inputs,   \* the exports and configurations offered in this behaviour
  schema,   \* the students table the process runs against
  db,       \* committed rows of each table
  seq,      \* next value of each table's id sequence
  run,      \* per process: the ingestion call in flight
  result,   \* per process: outcome of its last finished ingestion call
  started,  \* ingestion calls started so far
  last,     \* the call that committed most recently, while no call has
            \* started since
  source,   \* the call of GradescopeSync.sync_course in progress
  sync,     \* the call of GradeSyncService.sync_all in progress
  rebuilt,  \* the database as the last completed summary rebuild left it
  categorized,  \* the last call of _categorize_assignment and what it returned
  adapter   \* the call of _sync_prairielearn in progress

vars == <<inputs, schema, db, seq, run, result, started, last,
         source, sync, rebuilt, categorized, adapter>>

(***************************************************************************)
(* models.py declares Student without a course column and with             *)
(* uq_student_sid_email ("models"); batch_upsert_students and              *)
(* _update_summary_sheets are written against a students table that has    *)
(* course_id and uq_student_email_course ("course_email").  Both are       *)
(* covered: under "models" the Student insert of the optimized path raises.*)
(***************************************************************************)
Schemas == {"models", "course_email"}

\* the constraints of a schema that lacks uq_assignment_student
ConstraintsWithoutSubmissionKey(sch, s) ==
  /\ UniqueOn(s.courses, CourseKey)
  /\ sch = "models" => UniqueOn(s.students, SidEmailKey)
  /\ sch = "course_email" =>
       UniqueOn({t \in s.students : t.course_id # None}, EmailCourseKey)
  /\ UniqueOn(s.summary_sheets, SummaryKey)
  /\ \A t \in Tables : UniqueOn(s[t], LAMBDA r : r.id)

\* the constraints of a schema that lacks
\* uq_summary_course_student_assignment
ConstraintsWithoutSummaryKey(sch, s) ==
  /\ UniqueOn(s.courses, CourseKey)
  /\ sch = "models" => UniqueOn(s.students, SidEmailKey)
  /\ sch = "course_email" =>
       UniqueOn({t \in s.students : t.course_id # None}, EmailCourseKey)
  /\ UniqueOn(s.submissions, AssignmentStudentKey)
  /\ \A t \in Tables : UniqueOn(s[t], LAMBDA r : r.id)

\* the unique constraints of models.py (and uq_student_email_course)
Constraints(sch, s) ==
  /\ UniqueOn(s.courses, CourseKey)
  /\ sch = "models" => UniqueOn(s.students, SidEmailKey)
  /\ sch = "course_email" =>
       UniqueOn({t \in s.students : t.course_id # None}, EmailCourseKey)
  /\ UniqueOn(s.submissions, AssignmentStudentKey)
  /\ UniqueOn(s.summary_sheets, SummaryKey)
  /\ \A t \in Tables : UniqueOn(s[t], LAMBDA r : r.id)

\* the unique key a Student row occupies under the schema
StudentKeys(sch, t) ==
  IF sch = "models" THEN {SidEmailKey(t)}
  ELSE IF t.course_id # None THEN {EmailCourseKey(t)}
  ELSE {}

\* a unique index is checked at the end of every UPDATE statement, one row
\* at a time: a row cannot take a key that another row holds when the flush
\* begins
UpdatesAllowed(sch, cur, new) ==
  \A t \in new.students, o \in cur.students :
    /\ o.id # t.id
    /\ \E c \in cur.students :
         c.id = t.id /\ StudentKeys(sch, c) # StudentKeys(sch, t)
    => StudentKeys(sch, t) \cap StudentKeys(sch, o) = {}

\* the flush and COMMIT of a session succeed
Committable(sch, cur, new) ==
  Constraints(sch, new) /\ UpdatesAllowed(sch, cur, new)

\* one row of a session merged onto the committed row: the UPDATE writes the
\* columns the session changed
MergeRow(cur, old, new) ==
  [f \in DOMAIN cur |-> IF new[f] # old[f] THEN new[f] ELSE cur[f]]

\* the committed table t after the session's INSERTs and UPDATEs
MergeTable(cur, snap, pend) ==
  LET added == {r \in pend : r.id \notin Ids(snap)}
      merged(c) ==
        IF \E n \in pend : n.id = c.id /\ c.id \in Ids(snap)
        THEN LET n == CHOOSE n \in pend : n.id = c.id
                 o == CHOOSE o \in snap : o.id = c.id
             IN MergeRow(c, o, n)
        ELSE c
  IN {merged(c) : c \in cur} \cup added

\* the committed store after the session's flushes reach it
Merge(cur, snap, pend) == [t \in Tables |-> MergeTable(cur[t], snap[t], pend[t])]

(***************************************************************************)
(* A session's view: the rows it sees (tab), the ids it drew (seq), the    *)
(* Submission objects it added but did not flush (new_subs; the session is *)
(* created with autoflush=False, so its queries do not see them), and the  *)
(* Course and Assignment rows it resolved.                                 *)
(***************************************************************************)
View(store, ids) ==
  [tab |-> store, seq |-> ids, new_subs |-> {}, course |-> 0, asg |-> 0]

Truthy(v) == v # NoneS /\ v # ""

\* the Course row of the view with the given primary key
CourseRow(v) == CHOOSE c \in v.tab.courses : c.id = v.course
AssignmentRow(v) == CHOOSE a \in v.tab.assignments : a.id = v.asg

Replace(rows, old, new) == (rows \ {old}) \cup {new}

\* get-or-create of the Course by gradescope_course_id; the metadata of an
\* existing Course is refreshed by a non-empty differing value
GetOrCreateCourse(v, gcid, course_name) ==
  LET found == {c \in v.tab.courses : c.gradescope_course_id = gcid}
  IN IF found = {}
     THEN LET c == [id |-> v.seq.courses, gradescope_course_id |-> gcid,
                    name |-> course_name, number_of_students |-> None]
          IN [v EXCEPT !.tab.courses = @ \cup {c}, !.seq.courses = @ + 1,
                       !.course = c.id]
     ELSE LET c == CHOOSE c \in found : TRUE
              n == IF Truthy(course_name) /\ c.name # course_name
                   THEN [c EXCEPT !.name = course_name] ELSE c
          IN [v EXCEPT !.tab.courses = Replace(@, c, n), !.course = c.id]

NewAssignment(v, aid, title, category) ==
  [id |-> v.seq.assignments, assignment_id |-> aid, course_id |-> v.course,
   title |-> title, category |-> category, max_points |-> None,
   last_synced_at |-> None]

\* the Assignment rows a query by (assignment_id, course_id) matches;
\* .first() returns one of them
AssignmentsFound(v, aid) ==
  {a \in v.tab.assignments : a.assignment_id = aid /\ a.course_id = v.course}

WithNewAssignment(v, a) ==
  [v EXCEPT !.tab.assignments = @ \cup {a}, !.seq.assignments = @ + 1,
            !.asg = a.id]

\* write_assignment_scores_to_db: "Ensure assignment exists"; the category
\* of an existing Assignment is always overwritten
LegacyAssignment(v, aid, title, categories) ==
  LET category == Categorize(title, categories)
      found == AssignmentsFound(v, aid)
  IN IF found = {}
     THEN {WithNewAssignment(v, NewAssignment(v, aid, title, category))}
     ELSE {[v EXCEPT !.tab.assignments =
                       Replace(@, a, [a EXCEPT !.category = category]),
                     !.asg = a.id] : a \in found}

\* "Update assignment max_points from first row if not set"
LegacyMaxPoints(v, row) ==
  LET a == AssignmentRow(v)
  IN IF (a.max_points = None \/ a.max_points = 0)
        /\ row.maxp # "" /\ Parses(row.maxp) /\ NumText[row.maxp] > 0
     THEN [v EXCEPT !.tab.assignments =
                      Replace(@, a, [a EXCEPT !.max_points = NumText[row.maxp]])]
     ELSE v

\* column values of the Submission built from a row
LegacySubmissionValues(row) ==
  [total_score |-> Num(row.total), max_points |-> Num(row.maxp),
   status |-> row.status, view_count |-> Num(row.views)]

\* "Upsert submission (unique per assignment_id + student_id)"
LegacyUpsertSubmission(v, student_id, row) ==
  LET vals == LegacySubmissionValues(row)
      existing == {s \in v.tab.submissions :
                     s.assignment_id = v.asg /\ s.student_id = student_id}
  IN IF existing # {}
     THEN LET e == CHOOSE e \in existing : TRUE
              n == [e EXCEPT !.total_score = vals.total_score,
                             !.max_points = vals.max_points,
                             !.status = vals.status,
                             !.view_count = vals.view_count]
          IN [v EXCEPT !.tab.submissions = Replace(@, e, n)]
     ELSE LET n == [id |-> v.seq.submissions, assignment_id |-> v.asg,
                    student_id |-> student_id,
                    total_score |-> vals.total_score,
                    max_points |-> vals.max_points, status |-> vals.status,
                    view_count |-> vals.view_count]
          IN [v EXCEPT !.new_subs = @ \cup {n}, !.seq.submissions = @ + 1]

\* "Upsert student": the Student is looked up by SID alone; .first() returns
\* one of the rows carrying that SID
LegacyUpsertStudent(v, row) ==
  LET found == {t \in v.tab.students : t.sid = row.sid}
  IN IF found = {}
     THEN LET t == [id |-> v.seq.students, sid |-> row.sid,
                    email |-> row.email, legal_name |-> row.name,
                    course_id |-> None]
          IN {[view |-> [v EXCEPT !.tab.students = @ \cup {t},
                                  !.seq.students = @ + 1],
               student_id |-> t.id]}
     ELSE {LET e1 == IF Truthy(row.email) /\ t.email # row.email
                     THEN [t EXCEPT !.email = row.email] ELSE t
               e2 == IF Truthy(row.name) /\ e1.legal_name # row.name
                     THEN [e1 EXCEPT !.legal_name = row.name] ELSE e1
           IN [view |-> [v EXCEPT !.tab.students = Replace(@, t, e2)],
               student_id |-> t.id] : t \in found}

\* the body of "for row in reader" for one row; first: no row was read yet
LegacyRow(v, row, first) ==
  LET v1 == IF first THEN LegacyMaxPoints(v, row) ELSE v
  IN IF Strip(row.sid) = "" THEN {v1}
     ELSE IF row.status = "Missing" THEN {v1}
     ELSE {LegacyUpsertSubmission(u.view, u.student_id, row) :
             u \in LegacyUpsertStudent(v1, row)}

RECURSIVE LegacyRows(_, _, _)
\* "for row in reader": the views the loop can end in
LegacyRows(views, rows, first) ==
  IF rows = <<>> THEN views
  ELSE LegacyRows(UNION {LegacyRow(v, Head(rows), first) : v \in views},
                  Tail(rows), FALSE)

\* "Update course student count dynamically based on actual students in DB"
LegacyStudentCount(v) ==
  LET c == CourseRow(v)
      student_count == Cardinality(v.tab.students)
  IN IF c.number_of_students # student_count
     THEN [v EXCEPT !.tab.courses =
                      Replace(@, c, [c EXCEPT !.number_of_students = student_count])]
     ELSE v

\* write_assignment_scores_to_db up to its commit: the views the session
\* can hold when it commits
LegacyIngest(store, ids, gcid, aid, title, export, cfg) ==
  LET v0 == GetOrCreateCourse(View(store, ids), gcid, cfg.name)
      vs == LegacyAssignment(v0, aid, title, cfg.assignment_categories)
  IN {LegacyStudentCount(v) : v \in LegacyRows(vs, export, TRUE)}

\* the rows the session holds at commit: what it sees and what it added
PendingStore(v) == [v.tab EXCEPT !.submissions = @ \cup v.new_subs]

(***************************************************************************)
(* write_assignment_scores_optimized.                                      *)
(***************************************************************************)
\* "Get or create assignment": title and category of an existing Assignment
\* are updated when they differ, the category only by a non-empty one
OptimizedAssignment(v, aid, title, categories) ==
  LET category == Categorize(title, categories)
      found == AssignmentsFound(v, aid)
  IN IF found = {}
     THEN {WithNewAssignment(v, NewAssignment(v, aid, title, category))}
     ELSE {LET a1 == IF a.title # title THEN [a EXCEPT !.title = title] ELSE a
               a2 == IF Truthy(category) /\ a1.category # category
                     THEN [a1 EXCEPT !.category = category] ELSE a1
           IN [v EXCEPT !.tab.assignments = Replace(@, a, a2), !.asg = a.id] :
           a \in found}

Max(a, b) == IF a > b THEN a ELSE b

\* the body of "for row in reader" for one row of the export
OptimizedRow(acc, row, course_id) ==
  LET email == Strip(row.email)
      sid == Strip(row.sid)
  IN IF acc.raised THEN acc
     ELSE IF email = "" \/ email \in acc.seen_emails THEN acc
     ELSE IF FloatRaises(row.maxp) \/ FloatRaises(row.total)
             \/ FloatRaises(row.views)
     THEN [acc EXCEPT !.raised = TRUE]
     ELSE [acc EXCEPT
             !.seen_emails = @ \cup {email},
             !.students_data =
                Append(@, [course_id |-> course_id, email |-> email,
                           sid |-> sid, legal_name |-> row.name]),
             !.assignment_max_points = Max(@, FloatOrZero(row.maxp)),
             !.submissions_data =
                Append(@, [total_score |-> FloatOrZero(row.total),
                           max_points |-> FloatOrZero(row.maxp),
                           status |-> row.status,
                           view_count |-> FloatOrZero(row.views),
                           email |-> email])]

RECURSIVE OptimizedRows(_, _, _)
OptimizedRows(acc, rows, course_id) ==
  IF rows = <<>> THEN acc
  ELSE OptimizedRows(OptimizedRow(acc, Head(rows), course_id), Tail(rows),
                     course_id)

\* "Collect data for batch operations"
OptimizedCollect(export, course_id) ==
  OptimizedRows([students_data |-> <<>>, submissions_data |-> <<>>,
                 seen_emails |-> {}, assignment_max_points |-> 0,
                 raised |-> FALSE], export, course_id)

\* assignment.max_points is set when it is unset or not positive and the
\* batch holds a positive Max Points
OptimizedMaxPoints(v, assignment_max_points) ==
  LET a == AssignmentRow(v)
  IN IF assignment_max_points > 0 /\ (a.max_points = None \/ a.max_points <= 0)
     THEN [v EXCEPT !.tab.assignments =
                      Replace(@, a, [a EXCEPT !.max_points = assignment_max_points])]
     ELSE v

\* write_assignment_scores_optimized up to batch_upsert_students: the views
\* the session can hold, before the row loop's outcome is applied
OptimizedResolve(store, ids, gcid, aid, title, cfg) ==
  OptimizedAssignment(GetOrCreateCourse(View(store, ids), gcid, cfg.name),
                      aid, title, cfg.assignment_categories)

RECURSIVE InsertStudents(_, _, _)
\* INSERT INTO students ... ON CONFLICT ON CONSTRAINT uq_student_email_course
\* DO NOTHING: the students table and its id sequence afterwards
InsertStudents(students, next, students_data) ==
  IF students_data = <<>> THEN [students |-> students, next |-> next]
  ELSE LET d == Head(students_data)
       IN IF \E t \in students : t.course_id = d.course_id /\ t.email = d.email
          THEN InsertStudents(students, next, Tail(students_data))
          ELSE InsertStudents(
                 students \cup {[id |-> next, sid |-> d.sid, email |-> d.email,
                                 legal_name |-> d.legal_name,
                                 course_id |-> d.course_id]},
                 next + 1, Tail(students_data))

\* email_to_id of batch_upsert_students: the Students of the course whose
\* email is in the batch
EmailToId(students, course_db_id, students_data) ==
  LET emails == {students_data[i].email : i \in 1..Len(students_data)}
      rows == {t \in students : t.course_id = course_db_id /\ t.email \in emails}
  IN [e \in {t.email : t \in rows} |->
        (CHOOSE t \in rows : t.email = e).id]

RECURSIVE UpsertSubmissionRows(_, _, _, _, _)
\* INSERT INTO submissions ... ON CONFLICT ON CONSTRAINT uq_assignment_student
\* DO UPDATE SET every column from the batch
UpsertSubmissionRows(subs, next, assignment_db_id, email_to_id, data) ==
  IF data = <<>> THEN [submissions |-> subs, next |-> next]
  ELSE LET d == Head(data)
       IN IF d.email \notin DOMAIN email_to_id
          THEN UpsertSubmissionRows(subs, next, assignment_db_id, email_to_id,
                                    Tail(data))
          ELSE LET sid == email_to_id[d.email]
                   hit == {s \in subs : s.assignment_id = assignment_db_id
                                        /\ s.student_id = sid}
               IN IF hit # {}
                  THEN LET e == CHOOSE e \in hit : TRUE
                           n == [e EXCEPT !.total_score = d.total_score,
                                          !.max_points = d.max_points,
                                          !.status = d.status,
                                          !.view_count = d.view_count]
                       IN UpsertSubmissionRows(Replace(subs, e, n), next,
                            assignment_db_id, email_to_id, Tail(data))
                  ELSE UpsertSubmissionRows(
                         subs \cup {[id |-> next,
                                     assignment_id |-> assignment_db_id,
                                     student_id |-> sid,
                                     total_score |-> d.total_score,
                                     max_points |-> d.max_points,
                                     status |-> d.status,
                                     view_count |-> d.view_count]},
                         next + 1, assignment_db_id, email_to_id, Tail(data))

(***************************************************************************)
(* Ingestion calls as processes.                                           *)
(***************************************************************************)
Idle == [pc |-> "idle"]

\* the processes are interchangeable: the second one is used only while the
\* first has a call in flight
MayStart(p, path) ==
  /\ run[p].pc = "idle"
  /\ path \in inputs.paths
  /\ started < inputs.runs
  /\ p = "p2" => run["p1"].pc # "idle"

NoResult == [done |-> FALSE]

\* outcome of a finished call: the optimized path returns a dict, the
\* legacy path returns None or raises
Outcome(ok, err, n_students, n_submissions) ==
  [done |-> TRUE, success |-> ok, error |-> err,
   students_processed |-> n_students, submissions_processed |-> n_submissions]

Call(path, gcid, a, export, cfg) ==
  [path |-> path, course |-> gcid, aid |-> a.id, title |-> a.name,
   export |-> export, cfg |-> cfg]

NoCall == [path |-> "none"]

\* in place of the previous call when the call ran while another one did
Overlapped == [path |-> "overlapped"]

FirstIds == [t \in Tables |-> 1]

\* no summary rebuild has completed
NoRebuild == [done |-> FALSE]

\* the tables the summary is derived from
Canonical(store) ==
  [t \in {"courses", "assignments", "students", "submissions"} |-> store[t]]

\* a rebuild of the course completes: it read the store "from" and leaves
\* "new"; "again" tells that the rebuild before it was of the same course
\* and that no canonical row was written since that one started
Completed(before, course_db_id, from, new) ==
  [done |-> TRUE, course |-> course_db_id, from |-> from, tab |-> new,
   again |-> /\ before.done
             /\ before.course = course_db_id
             /\ Canonical(before.from) = Canonical(before.tab)
             /\ Canonical(before.tab) = Canonical(from)
             /\ Canonical(from) = Canonical(new)]

\* an empty database (init_db creates the tables) and nothing in progress
Fresh ==
  /\ schema \in Schemas
  /\ db = EmptyStore
  /\ seq = FirstIds
  /\ run = [p \in AllProcs |-> Idle]
  /\ result = [p \in AllProcs |-> NoResult]
  /\ started = 0
  /\ last = NoCall
  /\ source = [pc |-> "idle"]
  /\ sync = [pc |-> "idle", n |-> 0]
  /\ rebuilt = NoRebuild
  /\ categorized = [done |-> FALSE]
  /\ adapter = [pc |-> "idle"]

Init == inputs \in InputSets /\ Fresh

\* course_gradescope_id of a call: the courses of the behaviour
Courses(in) == IF "courses" \in DOMAIN in THEN in.courses ELSE CourseIds

InFlight(p) == run[p].pc # "idle"

\* the call returns (or raises) with the given outcome
Finish(p, call, outcome) ==
  /\ run' = [run EXCEPT ![p] = Idle]
  /\ result' = [result EXCEPT ![p] = outcome]
  /\ last' = IF outcome.success /\ InFlight(p) /\ run[p].prev # Overlapped
             THEN call ELSE NoCall

\* the call that committed right before this one started; "last" holds a
\* call only if it ran alone
Previous(p) ==
  IF \A q \in AllProcs \ {p} : ~InFlight(q) THEN last ELSE Overlapped

\* process p enters a call; a call of another process that is in flight is
\* no longer alone
Enter(p, rec) ==
  /\ run' = [q \in AllProcs |->
               IF q = p THEN rec
               ELSE IF InFlight(q) THEN [run[q] EXCEPT !.prev = Overlapped]
               ELSE run[q]]
  /\ result' = [result EXCEPT ![p] = NoResult]
  /\ last' = NoCall

\* write_assignment_scores_to_db from its first query to the last statement
\* before session.commit()
LegacyStart(p) ==
  /\ MayStart(p, "legacy")
  /\ \E gcid \in Courses(inputs), a \in inputs.catalog, export \in inputs.exports,
       cfg \in inputs.configs :
       \E v \in LegacyIngest(db, seq, gcid, a.id, a.name, export, cfg) :
         /\ Enter(p, [pc |-> "legacy_commit",
                       call |-> Call("legacy", gcid, a, export, cfg),
                       prev |-> Previous(p), start_db |-> db,
                       snap |-> db, pend |-> PendingStore(v)])
         /\ seq' = v.seq
  /\ started' = started + 1
  /\ UNCHANGED <<rebuilt, source, sync, inputs, schema, categorized, adapter, db>>

\* session.commit() of write_assignment_scores_to_db; a violated unique
\* constraint raises IntegrityError, which rolls the session back
LegacyCommit(p) ==
  /\ run[p].pc = "legacy_commit"
  /\ LET new == Merge(db, run[p].snap, run[p].pend)
     IN IF Committable(schema, db, new)
        THEN /\ db' = new
             /\ Finish(p, run[p].call, Outcome(TRUE, "", 0, 0))
        ELSE /\ db' = db
             /\ Finish(p, run[p].call, Outcome(FALSE, "IntegrityError", 0, 0))
  /\ UNCHANGED <<rebuilt, source, sync, inputs, schema, categorized, adapter, seq, started>>

\* the database fails the session (connection lost, statement timeout):
\* "except Exception: session.rollback(); raise"
LegacyFail(p) ==
  /\ run[p].pc = "legacy_commit"
  /\ Finish(p, run[p].call, Outcome(FALSE, "OperationalError", 0, 0))
  /\ UNCHANGED <<rebuilt, source, sync, inputs, schema, categorized, adapter, db, seq, started>>

\* write_assignment_scores_optimized from its first query to the flush of
\* assignment.max_points; a cell that float() or int() rejects raises
\* ValueError, which the function turns into a failed result
OptimizedBegin(p, gcid, a, export, cfg) ==
  /\ \E v \in OptimizedResolve(db, seq, gcid, a.id, a.name, cfg) :
       LET call == Call("optimized", gcid, a, export, cfg)
           got == OptimizedCollect(export, v.course)
       IN /\ seq' = v.seq
          /\ IF got.raised
             THEN Finish(p, call, Outcome(FALSE, "ValueError", 0, 0))
             ELSE Enter(p,
                       [pc |-> "students", call |-> call,
                        prev |-> Previous(p), start_db |-> db, snap |-> db,
                        pend |-> PendingStore(
                           OptimizedMaxPoints(v, got.assignment_max_points)),
                        course_db_id |-> v.course, assignment_db_id |-> v.asg,
                        students_data |-> got.students_data,
                        submissions_data |-> got.submissions_data,
                        email_to_id |-> <<>>])
  /\ started' = started + 1
  /\ UNCHANGED <<inputs, schema, categorized, adapter, db>>

\* a script or request handler calls write_assignment_scores_optimized
OptimizedStart(p) ==
  /\ MayStart(p, "optimized")
  /\ \E gcid \in Courses(inputs), a \in inputs.catalog, export \in inputs.exports,
       cfg \in inputs.configs :
       OptimizedBegin(p, gcid, a, export, cfg)
  /\ UNCHANGED <<rebuilt, source, sync>>

\* batch_upsert_students: nothing is executed for an empty batch; otherwise
\* the INSERT and session.commit(), which also commits the Course and
\* Assignment writes flushed before, then the query for the ids
OptimizedStudents(p) ==
  /\ run[p].pc = "students"
  /\ LET r == run[p]
     IN IF r.students_data = <<>>
        THEN /\ run' = [run EXCEPT ![p].pc = "timestamp"]
             /\ UNCHANGED <<db, seq, result, last>>
        ELSE IF schema = "models"
        THEN /\ Finish(p, r.call, Outcome(FALSE, "CompileError", 0, 0))
             /\ UNCHANGED <<db, seq>>
        ELSE LET base == Merge(db, r.snap, r.pend)
                 ins == InsertStudents(base.students, seq.students,
                                       r.students_data)
                 new == [base EXCEPT !.students = ins.students]
             IN IF Constraints(schema, new)
                THEN /\ db' = new
                     /\ seq' = [seq EXCEPT !.students = ins.next]
                     /\ run' = [run EXCEPT
                          ![p].pc = "submissions",
                          ![p].snap = EmptyStore, ![p].pend = EmptyStore,
                          ![p].email_to_id =
                             EmailToId(new.students, r.course_db_id,
                                       r.students_data)]
                     /\ UNCHANGED <<result, last>>
                ELSE /\ Finish(p, r.call, Outcome(FALSE, "IntegrityError", 0, 0))
                     /\ UNCHANGED <<db, seq>>
  /\ UNCHANGED <<rebuilt, source, sync, inputs, schema, categorized, adapter, started>>

\* "Add student_id to submissions", then batch_upsert_submissions: the
\* upsert and session.commit()
OptimizedSubmissions(p) ==
  /\ run[p].pc = "submissions"
  /\ LET r == run[p]
         ups == UpsertSubmissionRows(db.submissions, seq.submissions,
                  r.assignment_db_id, r.email_to_id, r.submissions_data)
         new == [db EXCEPT !.submissions = ups.submissions]
     IN /\ db' = new
        /\ seq' = [seq EXCEPT !.submissions = ups.next]
        /\ run' = [run EXCEPT ![p].pc = "timestamp"]
  /\ UNCHANGED <<rebuilt, source, sync, inputs, schema, categorized, adapter, result, started, last>>

\* final_submissions of the run: the batch rows whose email has an id
FinalCount(r) ==
  Cardinality({i \in 1..Len(r.submissions_data) :
                 r.submissions_data[i].email \in DOMAIN r.email_to_id})

\* "Update assignment sync timestamp", session.commit() and the result
OptimizedTimestamp(p) ==
  /\ run[p].pc = "timestamp"
  /\ LET r == run[p]
         base == Merge(db, r.snap, r.pend)
         a == CHOOSE a \in base.assignments : a.id = r.assignment_db_id
         new == [base EXCEPT !.assignments =
                   Replace(@, a, [a EXCEPT !.last_synced_at = started])]
     IN IF Constraints(schema, new)
        THEN /\ db' = new
             /\ Finish(p, r.call, Outcome(TRUE, "", Len(r.students_data),
                                  FinalCount(r)))
        ELSE /\ db' = db
             /\ Finish(p, r.call, Outcome(FALSE, "IntegrityError", 0, 0))
  /\ UNCHANGED <<rebuilt, source, sync, inputs, schema, categorized, adapter, seq, started>>

\* the database fails a statement or a commit of the optimized path:
\* "except Exception: session.rollback(); return {success: False}"
OptimizedFail(p) ==
  /\ run[p].pc \in {"students", "submissions", "timestamp"}
  /\ Finish(p, run[p].call, Outcome(FALSE, "OperationalError", 0, 0))
  /\ UNCHANGED <<rebuilt, source, sync, inputs, schema, categorized, adapter, db, seq, started>>

(***************************************************************************)
(* GradescopeSync.sync_course, called directly (examples, scripts).  The   *)
(* record "attempts" keeps, for every listed assignment in turn, what      *)
(* happened to it.                                                         *)
(***************************************************************************)
ingestion == <<db, seq, run, result, started, last>>

NoReturn ==
  [raised |-> FALSE, success |-> FALSE, assignments_synced |-> 0,
   students_synced |-> 0]
Raised == [NoReturn EXCEPT !.raised = TRUE]

\* the call starts: "try:" of sync_course
SourceStart ==
  /\ source.pc = "idle" /\ sync.pc = "idle"
  /\ \E save \in BOOLEAN, sheets \in BOOLEAN, cfg \in inputs.configs :
       source' = [pc |-> "login", save_to_db |-> save, spreadsheet_id |-> sheets,
                  course_config |-> cfg, todo |-> <<>>, listed |-> 0,
                  assignments_data |-> {}, students_data |-> {},
                  sheets_data |-> 0, scores_csv |-> <<>>, attempts |-> <<>>,
                  returned |-> NoReturn]
  /\ UNCHANGED <<inputs, schema, categorized, adapter, rebuilt, sync, ingestion>>

\* gs_client.log_in; a failed login raises RuntimeError out of sync_course
SourceLogin ==
  /\ source.pc = "login"
  /\ \E login_result \in BOOLEAN :
       source' = IF login_result THEN [source EXCEPT !.pc = "list"]
                 ELSE [source EXCEPT !.pc = "done", !.returned = Raised]
  /\ UNCHANGED <<inputs, schema, categorized, adapter, rebuilt, sync, ingestion>>

\* _get_course_assignments: the page's assignments, or {} after any error
SourceList ==
  /\ source.pc = "list"
  /\ \E course_assignments \in {Listing, <<>>} :
       source' = [source EXCEPT !.pc = "loop", !.todo = course_assignments,
                                !.listed = Len(course_assignments)]
  /\ UNCHANGED <<inputs, schema, categorized, adapter, rebuilt, sync, ingestion>>

\* the end of one loop iteration that did not download a CSV
Skipped(outcome) ==
  [source EXCEPT !.todo = Tail(@),
     !.attempts = Append(@, [aid |-> Head(source.todo).id,
                             outcome |-> outcome])]

\* the statements of the loop body after the call of the ingestion:
\* sheets_data, assignments_data and the SID column
Recorded(export, outcome) ==
  [source EXCEPT
     !.pc = "loop", !.todo = Tail(@),
     !.sheets_data = IF source.spreadsheet_id THEN @ + 1 ELSE @,
     !.assignments_data = @ \cup {Head(source.todo).id},
     !.students_data = @ \cup {export[i].sid : i \in 1..Len(export)},
     !.attempts = Append(@, [aid |-> Head(source.todo).id,
                             outcome |-> outcome])]

\* download_scores for the next assignment: it raises ("except Exception:
\* continue"), returns nothing, or returns the CSV, which is handed to
\* write_assignment_scores_optimized when save_to_db is set
SourceDownload ==
  /\ source.pc = "loop" /\ source.todo # <<>>
  /\ \/ /\ source' = Skipped("download_failed")
        /\ UNCHANGED ingestion
     \/ /\ source' = Skipped("empty")
        /\ UNCHANGED ingestion
     \/ \E scores_csv \in inputs.exports :
          IF source.save_to_db
          THEN /\ OptimizedBegin(SourceProc, "c1", Head(source.todo),
                                 scores_csv, source.course_config)
               /\ source' = [source EXCEPT !.pc = "ingesting",
                                        !.scores_csv = scores_csv]
          ELSE /\ source' = Recorded(scores_csv, "not_saved")
               /\ UNCHANGED ingestion
  /\ UNCHANGED <<inputs, schema, categorized, adapter, rebuilt, sync>>

\* write_assignment_scores_optimized has returned; its result is not read
SourceRecord ==
  /\ source.pc = "ingesting"
  /\ result[SourceProc].done
  /\ source' = Recorded(source.scores_csv,
                  IF result[SourceProc].success THEN "ingested"
                  ELSE "ingest_failed")
  /\ UNCHANGED <<inputs, schema, categorized, adapter, rebuilt, sync, ingestion>>

\* after the loop: the export to Sheets, which can raise, and the results
SourceReturn ==
  /\ source.pc = "loop" /\ source.todo = <<>>
  /\ \E exported \in BOOLEAN :
       source' =
         IF source.spreadsheet_id /\ source.sheets_data > 0 /\ ~exported
         THEN [source EXCEPT !.pc = "done", !.returned = Raised]
         ELSE [source EXCEPT !.pc = "done", !.returned =
                 [raised |-> FALSE, success |-> TRUE,
                  assignments_synced |-> Cardinality(source.assignments_data),
                  students_synced |-> Cardinality(source.students_data)]]
  /\ UNCHANGED <<inputs, schema, categorized, adapter, rebuilt, sync, ingestion>>

(***************************************************************************)
(* GradeSyncService.sync_all and its steps.                                *)
(***************************************************************************)
Sources == <<"gradescope", "prairielearn", "iclicker", "database">>

\* the *_enabled flags of the course configurations used
EnabledSets ==
  { {}, {"database"}, {"gradescope", "database"}, {"prairielearn", "iclicker"},
    {"gradescope", "prairielearn", "iclicker", "database"} }

\* no progress_callback, one that returns, one that can raise
Callbacks == {"none", "returns", "raises"}

\* what a call of emit_progress can do: return (TRUE) or raise (FALSE)
Emit(callback) == IF callback = "raises" THEN BOOLEAN ELSE {TRUE}

\* what the environment hands to one call of sync_course and one of sync_all
SyncInputSets ==
  { [exports |-> {<<RowA8, RowBMissing>>, <<RowABad>>},
     configs |-> {CfgLabs}, catalog |-> {}, runs |-> 0, paths |-> {},
     syncs |-> 1, enabled |-> EnabledSets, callbacks |-> Callbacks] }

\* a lookup that never finds the row: every pair is added again
ExistingSummaryNever(rows, course_db_id, student_id, assignment_id) == {}

\* "Check if record exists": the SummarySheet rows of the triple
ExistingSummary(rows, course_db_id, student_id, assignment_id) ==
  {r \in rows : /\ r.course_id = course_db_id
                /\ r.student_id = student_id
                /\ r.assignment_id = assignment_id}

RECURSIVE AddSummary(_, _, _, _, _)
\* the loops of save_summary_sheet_to_db over students and assignments: an
\* existing SummarySheet row gets the score, a missing one is added
AddSummary(rows, next, pairs, course_db_id, submissions) ==
  IF pairs = {} THEN [rows |-> rows, next |-> next]
  ELSE LET pr == CHOOSE x \in pairs :
                   \A y \in pairs : x[1] < y[1] \/ (x[1] = y[1] /\ x[2] <= y[2])
           subs == {b \in submissions :
                      b.assignment_id = pr[2] /\ b.student_id = pr[1]}
           score == IF subs = {} THEN None
                    ELSE (CHOOSE b \in subs : TRUE).total_score
           existing == ExistingSummary(rows, course_db_id, pr[1], pr[2])
       IN IF existing # {}
          THEN LET e == CHOOSE r \in existing : TRUE
               IN AddSummary(Replace(rows, e, [e EXCEPT !.score = score]),
                             next, pairs \ {pr}, course_db_id, submissions)
          ELSE AddSummary(rows \cup {[id |-> next, course_id |-> course_db_id,
                                      student_id |-> pr[1],
                                      assignment_id |-> pr[2],
                                      score |-> score]},
                          next + 1, pairs \ {pr}, course_db_id, submissions)

\* _update_summary_sheets: the Course is created and committed when missing;
\* Student.course_id raises AttributeError under the schema of models.py;
\* otherwise the summary is written in one transaction, which can fail
UpdateSummarySheets(sch, store, ids, gcid, course_name) ==
  LET v == GetOrCreateCourse(View(store, ids), gcid, course_name)
      found == {c \in store.courses : c.gradescope_course_id = gcid}
      base == IF found = {} THEN v.tab ELSE store
      assignments == {a \in base.assignments : a.course_id = v.course}
      students == {t \in base.students : t.course_id = v.course}
      submissions == {b \in base.submissions :
                        b.assignment_id \in Ids(assignments)}
      added == AddSummary(base.summary_sheets, v.seq.summary_sheets,
                          {<<t.id, a.id>> : t \in students, a \in assignments},
                          v.course, submissions)
      failed == [success |-> FALSE, course |-> v.course, tab |-> base,
                 seq |-> v.seq]
  IN IF sch = "models" THEN {failed}
     ELSE {failed,
           [success |-> TRUE, course |-> v.course,
            tab |-> [base EXCEPT !.summary_sheets = added.rows],
            seq |-> [v.seq EXCEPT !.summary_sheets = added.next]]}

\* what a step function returns and leaves in the database: sync_course does
\* not take the progress_callback that _sync_gradescope passes (TypeError);
\* the PrairieLearn and iClicker adapters succeed or raise
StepOutcomes(step) ==
  CASE step = "gradescope" ->
         {[success |-> FALSE, course |-> None, tab |-> db, seq |-> seq]}
    [] step \in {"prairielearn", "iclicker"} ->
         {[success |-> ok, course |-> None, tab |-> db, seq |-> seq] :
            ok \in BOOLEAN}
    [] step = "database" ->
         UpdateSummarySheets(schema, db, seq, "c1", sync.config.name)

\* sync_all up to the loop: the steps of the enabled sources; without any
\* step one progress event is emitted
SyncStart ==
  /\ sync.pc \in {"idle", "returned", "raised"}
  /\ sync.n < inputs.syncs
  /\ source.pc \in {"idle", "done"}
  /\ \E enabled \in inputs.enabled, callback \in inputs.callbacks,
        cfg \in inputs.configs :
     \E emitted \in Emit(callback) :
       LET steps == SelectSeq(Sources, LAMBDA x : x \in enabled)
       IN sync' = [pc |-> IF steps = <<>> /\ ~emitted THEN "raised"
                          ELSE "steps",
                   n |-> sync.n + 1,
                   config |-> cfg, callback |-> callback, enabled |-> enabled,
                   steps |-> steps, results |-> <<>>,
                   reference |-> <<>>, overall_success |-> FALSE]
  /\ UNCHANGED <<inputs, schema, categorized, adapter, rebuilt, source, ingestion>>

\* one iteration of the loop: the "start" event, the step function, the
\* result, the "completed" or "failed" event; a progress_callback that raises
\* ends sync_all with its exception.  "reference" keeps what the step
\* function returns to an invocation without progress_callback, which gets
\* as far as this step whatever the events do
SyncStep ==
  /\ sync.pc = "steps" /\ Len(sync.results) < Len(sync.steps)
  /\ LET step == sync.steps[Len(sync.results) + 1]
     IN \E started_event \in Emit(sync.callback),
           done_event \in Emit(sync.callback), r \in StepOutcomes(step) :
          IF ~started_event
          THEN /\ sync' = [sync EXCEPT !.pc = "raised",
                                        !.reference = Append(@, r.success)]
               /\ UNCHANGED <<db, seq, rebuilt>>
          ELSE /\ sync' = [sync EXCEPT
                    !.results = Append(@, [source |-> step,
                                           success |-> r.success]),
                    !.reference = Append(@, r.success),
                    !.pc = IF done_event THEN "steps" ELSE "raised"]
               /\ db' = r.tab
               /\ seq' = r.seq
               /\ rebuilt' = IF step = "database" /\ r.success
                             THEN Completed(rebuilt, r.course, r.tab, r.tab)
                             ELSE rebuilt
  /\ UNCHANGED <<inputs, schema, categorized, adapter, source, run, result, started, last>>

\* any(r.success for r in results): true as soon as one step succeeded
OverallSuccessOfAny(results) ==
  \E i \in 1..Len(results) : results[i].success

\* all(r.success for r in self.results)
OverallSuccess(results) ==
  \A i \in 1..Len(results) : results[i].success

\* "Compile summary" and return
SyncReturn ==
  /\ sync.pc = "steps" /\ Len(sync.results) = Len(sync.steps)
  /\ sync' = [sync EXCEPT
       !.pc = "returned",
       !.overall_success = OverallSuccess(sync.results)]
  /\ UNCHANGED <<inputs, schema, categorized, adapter, rebuilt, source, ingestion>>

(***************************************************************************)
(* scripts/generate_summary_sheets.py: the summary rebuild run as a script. *)
(* get_course_data reads the course in one session; save_summary_sheet_to_db*)
(* writes the summary_sheets table in another.                             *)
(***************************************************************************)
\* get_course_data: the assignments of the course, every Student row, the
\* Submissions of the course's assignments (ValueError without the Course)
CourseData(store, course_db_id) ==
  LET assignments == {a \in store.assignments : a.course_id = course_db_id}
  IN [assignments |-> assignments,
      students |-> store.students,
      submissions |-> {b \in store.submissions :
                         b.assignment_id \in Ids(assignments)}]

\* the script starts and reads the course data; it is no ingestion call and
\* leaves the record of the last one as it is
ScriptRead(p) ==
  /\ MayStart(p, "summary")
  /\ \E gcid \in CourseIds :
     \E c \in {x \in db.courses : x.gradescope_course_id = gcid} :
       run' = [run EXCEPT ![p] =
                 [pc |-> "summary_save",
                  call |-> [path |-> "summary", course |-> gcid, aid |-> NoneS],
                  prev |-> Previous(p), start_db |-> db, snap |-> db,
                  course_db_id |-> c.id,
                  course_data |-> CourseData(db, c.id)]]
  /\ started' = started + 1
  /\ UNCHANGED <<rebuilt, source, sync, inputs, schema, categorized, adapter, db, seq,
                 result, last>>

\* save_summary_sheet_to_db with the data read, up to its commit: the
\* session looks every (student, assignment) pair up and sets the score of
\* the row found or adds a row
ScriptSave(p) ==
  /\ run[p].pc = "summary_save"
  /\ LET d == run[p].course_data
         added == AddSummary(db.summary_sheets, seq.summary_sheets,
                             {<<t.id, a.id>> :
                                t \in d.students, a \in d.assignments},
                             run[p].course_db_id, d.submissions)
     IN /\ run' = [run EXCEPT ![p] =
                     [pc |-> "summary_commit", call |-> run[p].call,
                      prev |-> run[p].prev, start_db |-> run[p].start_db,
                      snap |-> run[p].snap,
                      course_db_id |-> run[p].course_db_id,
                      sheet_snap |-> db.summary_sheets,
                      sheet_pend |-> added.rows]]
        /\ seq' = [seq EXCEPT !.summary_sheets = added.next]
  /\ UNCHANGED <<rebuilt, source, sync, inputs, schema, categorized, adapter,
                 db, result, started, last>>

\* session.commit() of save_summary_sheet_to_db; an exception (the import of
\* core.models, a violated constraint) rolls back and is logged by the script
ScriptCommit(p) ==
  /\ run[p].pc = "summary_commit"
  /\ LET new == [db EXCEPT !.summary_sheets =
                   MergeTable(@, run[p].sheet_snap, run[p].sheet_pend)]
     IN \/ /\ Constraints(schema, new)
           /\ db' = new
           /\ rebuilt' = Completed(rebuilt, run[p].course_db_id,
                                   run[p].snap, new)
        \/ UNCHANGED <<db, rebuilt>>
  /\ run' = [run EXCEPT ![p] = Idle]
  /\ UNCHANGED <<source, sync, inputs, schema, categorized, adapter, seq, result,
                 started, last>>

Next ==
  \E p \in Procs :
    \/ LegacyStart(p)
    \/ LegacyCommit(p)
    \/ LegacyFail(p)
    \/ OptimizedStart(p)
    \/ OptimizedStudents(p)
    \/ OptimizedSubmissions(p)
    \/ OptimizedTimestamp(p)
    \/ OptimizedFail(p)

Spec == Init /\ [][Next]_vars

\* ingestions of two courses whose exports share a sid and an email, of
\* exports whose Max Points, legal name and sid change between runs, and of
\* exports that hold two rows of one student
CourseInputSets ==
  { [exports |-> {<<RowA8>>, <<RowC5>>},
     configs |-> {CfgLabs}, catalog |-> {LabAssignment},
     runs |-> MaxCourseRuns, paths |-> {"legacy", "optimized"},
     courses |-> {"c1", "c2"}],
    [exports |-> {<<>>, <<RowA8>>, <<RowA5of5>>, <<RowAnna8>>, <<RowA8Sid9>>,
                  <<RowA8NoName>>},
     configs |-> {CfgLabs}, catalog |-> {LabAssignment},
     runs |-> MaxCourseRuns, paths |-> {"legacy", "optimized"},
     courses |-> {"c1"}],
    [exports |-> {<<RowA8, RowA5>>, <<RowA5>>, <<RowA8, RowB7, RowA5>>},
     configs |-> {CfgLabs}, catalog |-> {LabAssignment},
     runs |-> MaxCourseRuns, paths |-> {"legacy", "optimized"},
     courses |-> {"c1"}] }

InitCourses == inputs \in CourseInputSets /\ Fresh

SpecCourses == InitCourses /\ [][Next]_vars

\* ingestions and summary rebuilds of one course: by the script and by the
\* database step of sync_all
SummaryInputSets ==
  { [exports |-> {<<RowA8, RowBMissing>>, <<RowAMissing>>},
     configs |-> {CfgLabs}, catalog |-> Catalog, runs |-> MaxSummaryRuns,
     paths |-> {"legacy", "summary"},
     syncs |-> 0, enabled |-> {}, callbacks |-> {}],
    [exports |-> {<<RowA8>>, <<RowA5>>},
     configs |-> {CfgLabs}, catalog |-> {LabAssignment},
     runs |-> MaxSummaryRuns, paths |-> {"optimized", "summary"},
     syncs |-> 0, enabled |-> {}, callbacks |-> {}],
    [exports |-> {<<RowA8, RowBMissing>>, <<RowA5>>},
     configs |-> {CfgLabs}, catalog |-> {LabAssignment}, runs |-> 1,
     paths |-> {"optimized", "legacy"},
     syncs |-> MaxSyncs, enabled |-> {{"database"}},
     callbacks |-> {"none"}] }

InitSummary == inputs \in SummaryInputSets /\ Fresh

NextSummary ==
  \/ \E p \in Procs :
       \/ LegacyStart(p)
       \/ LegacyCommit(p)
       \/ LegacyFail(p)
       \/ OptimizedStart(p)
       \/ OptimizedStudents(p)
       \/ OptimizedSubmissions(p)
       \/ OptimizedTimestamp(p)
       \/ OptimizedFail(p)
       \/ ScriptRead(p)
       \/ ScriptSave(p)
       \/ ScriptCommit(p)
  \/ SyncStart
  \/ SyncStep
  \/ SyncReturn

SpecSummary == InitSummary /\ [][NextSummary]_vars

(***************************************************************************)
(* _categorize_assignment on its own: names and rule lists.                *)
(***************************************************************************)
\* leading text, first word, separator and rest of an assignment name
NamePrefixes == {<<>>, <<" ">>, <<"_">>}
NameWords ==
  { <<"P", "r", "a", "c", "t", "i", "c", "e">>, Practice,
    <<"P", "R", "A", "C", "T", "I", "C", "E">>,
    <<"p", "r", "a", "c", "t">>, <<"L", "a", "b">>, <<"Q", "u", "i", "z">> }
NameSeparators == {<<>>, <<"_">>}
NameRests == {<<>>, <<"l", "a", "b">>, <<"Q", "U", "I", "Z">>, <<"1">>}

AssignmentNames ==
  {a \o b \o c \o d : a \in NamePrefixes, b \in NameWords,
                      c \in NameSeparators, d \in NameRests}

\* entries of assignment_categories
CategoryRules ==
  { [name |-> "Labs", patterns |-> << <<"l", "a", "b">> >>],
    [name |-> "Quizzes", patterns |-> << <<"z", "z">>, <<"Q", "u", "i", "z">> >>],
    [name |-> "Practice Labs",
     patterns |-> << <<"p", "r", "a", "c", "t", "i", "c", "e", " ", "l", "a", "b">> >>],
    [name |-> "Numbered", patterns |-> << <<"b", " ", "1">>, <<"_">> >>],
    [name |-> "Unused", patterns |-> <<>>] }

\* rule lists of up to two rules
RuleLists ==
  {<<>>} \cup {<<r>> : r \in CategoryRules}
         \cup {<<pr[1], pr[2]>> :
                 pr \in {x \in CategoryRules \X CategoryRules : x[1] # x[2]}}

CategorizeInputSets ==
  { [names |-> AssignmentNames, rules |-> RuleLists] }

\* one call of _categorize_assignment (the function keeps no state between
\* calls: one call per behaviour)
CategorizeCall ==
  /\ ~categorized.done
  /\ \E assignment_name \in inputs.names, course_categories \in inputs.rules :
       categorized' = [done |-> TRUE, name |-> assignment_name,
                       rules |-> course_categories,
                       category |-> Categorize(assignment_name,
                                               course_categories)]
  /\ UNCHANGED <<inputs, schema, adapter, source, sync, rebuilt, ingestion>>

InitCategorize == inputs \in CategorizeInputSets /\ Fresh

NextCategorize == CategorizeCall

SpecCategorize == InitCategorize /\ [][NextCategorize]_vars

(***************************************************************************)
(* queries/summary.py: the summary read model.                             *)
(***************************************************************************)
\* get_summary_sheet_from_db, "students": one entry per Student row (the
\* entry keeps the row it was built from, the list can hold equal entries),
\* with the score of every assignment of the course looked up in
\* summary_sheets (None where the read model has "")
GetSummarySheet(store, course_db_id) ==
  LET assignments == {a \in store.assignments : a.course_id = course_db_id}
      records == {e \in store.summary_sheets : e.course_id = course_db_id}
      Score(t, a) ==
        LET found == {e \in records :
                        e.student_id = t.id /\ e.assignment_id = a.id}
        IN IF found = {} THEN None ELSE (CHOOSE e \in found : TRUE).score
  IN {[student_id |-> t.id, email |-> t.email,
       scores |-> [a \in assignments |-> Score(t, a)]] : t \in store.students}

\* "assignments" of both read models: one title per Assignment row of the
\* course
AssignmentTitles(store, course_db_id) ==
  {[assignment_id |-> a.id, title |-> a.title] :
     a \in {x \in store.assignments : x.course_id = course_db_id}}

\* get_summary_sheet_from_db: empty lists for a course that is not stored
SummarySheetFromDb(store, gcid) ==
  LET found == {c \in store.courses : c.gradescope_course_id = gcid}
  IN IF found = {} THEN [assignments |-> {}, students |-> {}]
     ELSE LET course == CHOOSE c \in found : TRUE
          IN [assignments |-> AssignmentTitles(store, course.id),
              students |-> GetSummarySheet(store, course.id)]

\* "students" of get_summary_data_from_db, restricted to the Students of
\* the course
StudentDataOfCourse(store, course_db_id) ==
  LET assignments == {a \in store.assignments : a.course_id = course_db_id}
      Score(t, a) ==
        LET subs == {b \in store.submissions :
                       b.assignment_id = a.id /\ b.student_id = t.id}
        IN IF subs = {} THEN None ELSE (CHOOSE b \in subs : TRUE).total_score
  IN {[student_id |-> t.id, email |-> t.email,
       scores |-> [a \in assignments |-> Score(t, a)]] :
        t \in {x \in store.students : x.course_id = course_db_id}}

\* "students" of get_summary_data_from_db: one entry per Student row, with
\* the total_score of the Submission of every assignment of the course
StudentData(store, course_db_id) ==
  LET assignments == {a \in store.assignments : a.course_id = course_db_id}
      Score(t, a) ==
        LET subs == {b \in store.submissions :
                       b.assignment_id = a.id /\ b.student_id = t.id}
        IN IF subs = {} THEN None ELSE (CHOOSE b \in subs : TRUE).total_score
  IN {[student_id |-> t.id, email |-> t.email,
       scores |-> [a \in assignments |-> Score(t, a)]] : t \in store.students}

\* get_summary_data_from_db: empty lists for a course that is not stored
SummaryDataFromDb(store, gcid) ==
  LET found == {c \in store.courses : c.gradescope_course_id = gcid}
  IN IF found = {} THEN [assignments |-> {}, students |-> {}]
     ELSE LET course == CHOOSE c \in found : TRUE
          IN [assignments |-> AssignmentTitles(store, course.id),
              students |-> StudentData(store, course.id)]

\* one call of GradescopeSync.sync_course and one of sync_all
InitSync == inputs \in SyncInputSets /\ Fresh

NextSync ==
  \/ SourceStart
  \/ SourceLogin
  \/ SourceList
  \/ SourceDownload
  \/ SourceRecord
  \/ SourceReturn
  \/ OptimizedStudents(SourceProc)
  \/ OptimizedSubmissions(SourceProc)
  \/ OptimizedTimestamp(SourceProc)
  \/ OptimizedFail(SourceProc)
  \/ SyncStart
  \/ SyncStep
  \/ SyncReturn

SpecSync == InitSync /\ [][NextSync]_vars

(***************************************************************************)
(* services/prairielearn: the PrairieLearn adapter.                        *)
(***************************************************************************)
\* the default of _call_api's retry_502_max; no caller passes another value
retry_502_max == 30

\* the status codes a response carries; NoStatus while no response has come
StatusCodes == {200, 401, 403, 404, 500, 502}

NoStatus == 0

\* a 200 response whose body json() parses, or does not
Bodies == {"json", "invalid"}

\* the calls of _call_api that sync_course makes, in order: get_course_info,
\* get_gradebook, get_assessments and, with a spreadsheet,
\* export_gradebook_to_dict's get_gradebook and get_assessments
Endpoints(spreadsheet_id) ==
  IF spreadsheet_id
  THEN <<"course_instance", "gradebook", "assessments", "gradebook",
         "assessments">>
  ELSE <<"course_instance", "gradebook", "assessments">>

\* a variant of Retried that answers every error by another request
RetriedOnAnyError(status_code) == status_code # 200

\* the statuses that _call_api answers by another request
Retried(status_code) == status_code = 502

\* one iteration of _call_api's loop, on the response to its request
CallApi(retry_502_count, status_code, body) ==
  IF status_code = 200
  THEN IF body = "json"
       THEN [next |-> "return", retry_502_count |-> retry_502_count,
             error |-> ""]
       ELSE [next |-> "raise", retry_502_count |-> retry_502_count,
             error |-> "JSONDecodeError"]
  ELSE IF Retried(status_code)
  THEN IF retry_502_count + 1 >= retry_502_max
       THEN [next |-> "raise", retry_502_count |-> retry_502_count + 1,
             error |-> "Max retries reached on 502 error"]
       ELSE [next |-> "continue", retry_502_count |-> retry_502_count + 1,
             error |-> ""]
  ELSE [next |-> "raise", retry_502_count |-> retry_502_count,
        error |-> "API returned status"]

\* the result of _sync_prairielearn while it has not returned
NotReturned == [source |-> "prairielearn"]

AdapterInputSets ==
  { [tokens |-> BOOLEAN, spreadsheets |-> BOOLEAN,
     statuses |-> StatusCodes, bodies |-> Bodies] }

\* _sync_prairielearn up to the first request: the token is read from the
\* environment (ValueError without one) and sync_course begins
AdapterStart ==
  /\ adapter.pc = "idle"
  /\ \E token \in inputs.tokens, spreadsheet_id \in inputs.spreadsheets :
       adapter' = [pc |-> IF token THEN "request" ELSE "raised",
                   spreadsheet_id |-> spreadsheet_id,
                   endpoints |-> Endpoints(spreadsheet_id),
                   call |-> IF token THEN 1 ELSE 0,
                   retry_502_count |-> 0,
                   requests |-> 0,
                   status_code |-> NoStatus,
                   error |-> IF token THEN "" ELSE "PL_API_TOKEN must be set",
                   result |-> NotReturned]
  /\ UNCHANGED <<inputs, schema, categorized, source, sync, rebuilt,
                 ingestion>>

\* one request of _call_api and what the loop does with the response; a call
\* that returns is followed by the next one of sync_course
AdapterRequest ==
  /\ adapter.pc = "request"
  /\ \E status_code \in inputs.statuses, body \in inputs.bodies :
       LET r == CallApi(adapter.retry_502_count, status_code, body)
           sent == [adapter EXCEPT
                      !.requests = IF adapter.retry_502_count = 0
                                   THEN 1 ELSE @ + 1,
                      !.status_code = status_code,
                      !.retry_502_count = r.retry_502_count,
                      !.error = r.error]
       IN adapter' =
            CASE r.next = "continue" -> sent
              [] r.next = "raise" -> [sent EXCEPT !.pc = "raised"]
              [] r.next = "return" ->
                   IF adapter.call = 3 /\ adapter.spreadsheet_id
                   THEN [sent EXCEPT !.pc = "export"]
                   ELSE IF adapter.call = Len(adapter.endpoints)
                   THEN [sent EXCEPT
                           !.pc = IF adapter.spreadsheet_id
                                  THEN "export" ELSE "completed"]
                   ELSE [sent EXCEPT !.call = @ + 1, !.retry_502_count = 0]
  /\ UNCHANGED <<inputs, schema, categorized, source, sync, rebuilt,
                 ingestion>>

\* dataframe_to_sheet: of the gradebook after the third call, of every
\* assessment after the fifth; the spreadsheet client writes or raises
AdapterExport ==
  /\ adapter.pc = "export"
  /\ \E written \in BOOLEAN :
       adapter' =
         IF ~written
         THEN [adapter EXCEPT !.pc = "raised", !.error = "sheets"]
         ELSE IF adapter.call = Len(adapter.endpoints)
         THEN [adapter EXCEPT !.pc = "completed"]
         ELSE [adapter EXCEPT !.pc = "request", !.call = @ + 1,
                              !.retry_502_count = 0]
  /\ UNCHANGED <<inputs, schema, categorized, source, sync, rebuilt,
                 ingestion>>

\* sync_course closes the client and returns or re-raises; _sync_prairielearn
\* turns either into its GradeSyncResult
AdapterReturn ==
  /\ adapter.pc \in {"completed", "raised"}
  /\ adapter' = [adapter EXCEPT
                   !.pc = "returned",
                   !.result = [source |-> "prairielearn",
                               success |-> adapter.pc = "completed"]]
  /\ UNCHANGED <<inputs, schema, categorized, source, sync, rebuilt,
                 ingestion>>

InitAdapter == inputs \in AdapterInputSets /\ Fresh

NextAdapter ==
  \/ AdapterStart
  \/ AdapterRequest
  \/ AdapterExport
  \/ AdapterReturn

\* every request is answered and the process keeps running
SpecAdapter == InitAdapter /\ [][NextAdapter]_vars /\ WF_vars(NextAdapter)

(***************************************************************************)
(* Properties of the upsert engine.                                        *)
(***************************************************************************)
AllIdle == \A p \in AllProcs : ~InFlight(p)

\* the Submission rows a step adds, removes or rewrites
Touched == (db.submissions \ db'.submissions)
             \cup (db'.submissions \ db.submissions)

\* call b is call a with another export, and the two exports are equal but
\* for the Total Score of row i
ScoreChanged(a, b, i) ==
  /\ a \notin {NoCall, Overlapped}
  /\ [a EXCEPT !.export = b.export] = b
  /\ Len(a.export) = Len(b.export)
  /\ i \in 1..Len(a.export)
  /\ a.export[i].total # b.export[i].total
  /\ [a.export EXCEPT ![i].total = b.export[i].total] = b.export

\* C1: ingesting the same export for the same (course, assignment) twice in a
\* row leaves the Submission rows as they were after the first ingestion: no
\* step of a call that repeats the call committed right before it changes the
\* Submission table
C1_IdempotentReingestion ==
  [][\A p \in Procs :
       InFlight(p) /\ run[p].prev = run[p].call
         => db'.submissions = db.submissions]_vars

\* C2: when an export that differs from the one ingested right before only in
\* one student's score is ingested, exactly that student's Submission row
\* changes: no row appears or disappears, every rewritten row belongs to the
\* student of the changed export row, and once the call has committed that
\* student's row holds the new score
C2_UpsertIdentity ==
  [][\A p \in Procs :
       InFlight(p) =>
         \A i \in 1..Len(run[p].call.export) :
           ScoreChanged(run[p].prev, run[p].call, i) =>
             LET row == run[p].call.export[i]
                 Owns(t, s) == t.email = row.email /\ s.student_id = t.id
             IN /\ Ids(db'.submissions) = Ids(db.submissions)
                /\ \A s \in Touched : \E t \in db'.students : Owns(t, s)
                /\ result'[p].done /\ result'[p].success =>
                     \E t \in db'.students, s \in db'.submissions :
                       Owns(t, s) /\ s.total_score = Num(row.total)]_vars

\* C3: in every reachable state, the states after failed runs included, there
\* is at most one Submission row per (assignment_id, student_id)
C3_SubmissionUniqueness == UniqueOn(db.submissions, AssignmentStudentKey)

\* a session that holds two Submission rows for one (assignment, student)
\* is about to commit, while Submission rows are stored
C3_Witness ==
  /\ db.submissions # {}
  /\ \E p \in Procs :
       /\ run[p].pc = "legacy_commit"
       /\ ~UniqueOn(Merge(db, run[p].snap, run[p].pend).submissions,
                    AssignmentStudentKey)

\* C4: there is at most one Student per (course, email), a Student is
\* resolved by email and sid is never the sole key: no step rewrites the
\* email of a stored Student
C4_StudentIdentity ==
  [][/\ UniqueOn(db'.students, EmailCourseKey)
     /\ \A s \in db.students, t \in db'.students :
          s.id = t.id => s.email = t.email]_vars

AssignmentKey(a) == <<a.course_id, a.assignment_id>>

\* C5: there is at most one Assignment row per (course, external assignment
\* id), also when ingestions for the same course interleave
C5_AssignmentUniqueness == UniqueOn(db.assignments, AssignmentKey)

Unreadable(c) ==
  {i \in 1..Len(c.export) :
     /\ Strip(c.export[i].email) # ""
     /\ c.export[i].status # "Missing"
     /\ ~Parses(c.export[i].total)}

\* C7: an empty or unparsable numeric cell is stored as null, never as 0,
\* and never aborts the ingestion: no call ends in ValueError, and after a
\* call has committed the Submission of every such row has no total_score
C7_NullSafeParsing ==
  /\ \A p \in Procs : result[p].done => result[p].error # "ValueError"
  /\ last # NoCall /\ AllIdle =>
       \A i \in Unreadable(last) :
         \A t \in db.students, s \in db.submissions :
           t.email = last.export[i].email /\ s.student_id = t.id
             => s.total_score = None

C9_PartialFailureIsolation ==
  source.pc = "done" /\ ~source.returned.raised =>
    \A i \in 1..Len(source.attempts) :
      source.attempts[i].outcome = "ingest_failed" =>
        /\ Len(source.attempts) = source.listed
        /\ source.returned.success
        /\ source.attempts[i].aid \notin source.assignments_data
        /\ source.returned.assignments_synced < source.listed

\* C10: when a step of a sync invocation has failed, its failed result is
\* recorded and every later step, the summary rebuild included, is executed
\* all the same: a finished invocation has one result per step
C10_SourceFailureIsolation ==
  sync.pc \in {"returned", "raised"} =>
    \A i \in 1..Len(sync.results) :
      ~sync.results[i].success => Len(sync.results) = Len(sync.steps)

(***************************************************************************)
(* Properties of sync_all's report.                                        *)
(***************************************************************************)
\* C11: when sync_all has returned, overall_success is true only if the result
\* of every attempted step is successful, and every entry of results belongs
\* to an enabled source: a disabled source has no entry at all
C11_OverallResult ==
  sync.pc = "returned" =>
    /\ sync.overall_success =>
         \A i \in 1..Len(sync.results) : sync.results[i].success
    /\ \A i \in 1..Len(sync.results) : sync.results[i].source \in sync.enabled
    /\ \A x \in sync.enabled :
         Cardinality({i \in 1..Len(sync.results) :
                        sync.results[i].source = x}) = 1

\* a report with a failed and a successful step and two disabled sources
C11_Witness ==
  /\ sync.pc = "returned" /\ ~sync.overall_success
  /\ sync.enabled = {"prairielearn", "iclicker"}
  /\ \E i, j \in 1..Len(sync.results) :
       sync.results[i].success /\ ~sync.results[j].success

(***************************************************************************)
(* Properties of the summary rebuild.                                      *)
(***************************************************************************)
\* C12: a rebuild of a course that follows another rebuild of the same
\* course, with no write to Course, Assignment, Student or Submission since
\* the first one started, leaves the same set of SummarySheet rows (same
\* triples, same scores) as the first one left
C12_RebuildIdempotence ==
  [][rebuilt' # rebuilt /\ rebuilt'.again
       => rebuilt'.tab.summary_sheets = rebuilt.tab.summary_sheets]_vars

\* a second rebuild has completed over a summary that holds a score
C12_Witness ==
  /\ rebuilt.done /\ rebuilt.again
  /\ \E e \in db.summary_sheets : e.score # None

\* the students of a course: the rows with its course_id where the students
\* table has that column, every Student row otherwise
StudentsOf(sch, store, course_db_id) ==
  IF sch = "course_email"
  THEN {t \in store.students : t.course_id = course_db_id}
  ELSE store.students

\* every (student, assignment) pair of the course has exactly one
\* SummarySheet row, whose score is the total_score of the pair's Submission,
\* or null without one
SummaryConsistent(sch, store, course_db_id) ==
  \A t \in StudentsOf(sch, store, course_db_id) :
    \A a \in {x \in store.assignments : x.course_id = course_db_id} :
      LET entries == {e \in store.summary_sheets :
                        /\ e.course_id = course_db_id
                        /\ e.student_id = t.id
                        /\ e.assignment_id = a.id}
          subs == {b \in store.submissions :
                     b.assignment_id = a.id /\ b.student_id = t.id}
      IN /\ Cardinality(entries) = 1
         /\ \A e \in entries :
              IF subs = {} THEN e.score = None
              ELSE \A b \in subs : e.score = b.total_score

\* C13: in every state where the Submission rows are those the last completed
\* rebuild of a course left, each (student, assignment) pair of the course
\* has exactly one summary row, holding the Submission's total_score or null
C13_SummaryConsistency ==
  rebuilt.done /\ db.submissions = rebuilt.tab.submissions
    => SummaryConsistent(schema, db, rebuilt.course)

(***************************************************************************)
(* Concurrency.                                                            *)
(***************************************************************************)
\* C14: at no time are two ingestion transactions for the same (course,
\* assignment) pair in flight
C14_MutualExclusion ==
  \A p, q \in Procs :
    p # q /\ InFlight(p) /\ InFlight(q)
      => <<run[p].call.course, run[p].call.aid>>
           # <<run[q].call.course, run[q].call.aid>>

\* C15: sync_all never raises, and the report it returns holds one result
\* for every attempted step
C15_AlwaysCompletes ==
  /\ sync.pc # "raised"
  /\ sync.pc = "returned" => Len(sync.results) = Len(sync.steps)

\* C16: an invocation with a progress callback ends as the invocation without
\* one that meets the same step outcomes: it executes the same steps in the
\* same order, with the same success values and the same overall_success
C16_ProgressNonInterference ==
  sync.pc \in {"returned", "raised"} =>
    /\ [i \in 1..Len(sync.results) |-> sync.results[i].source] = sync.steps
    /\ [i \in 1..Len(sync.results) |-> sync.results[i].success]
         = sync.reference
    /\ sync.pc = "returned"
    /\ sync.overall_success = OverallSuccess(sync.results)

(***************************************************************************)
(* Properties of the categorizer.                                          *)
(***************************************************************************)
\* the name after replace('_', ' ') and strip(), in lower case
NormalizedLower(name) == Lower(StripSeq(ReplaceUnderscore(name)))

\* C17: a name that, with underscores replaced by spaces and trimmed, starts
\* with "practice" in any letter case gets no category from any non-empty
\* rule list, also when a pattern of a rule occurs in the name
C17_PracticeExclusion ==
  categorized.done
  /\ categorized.rules # <<>>
  /\ StartsWith(NormalizedLower(categorized.name), Practice)
    => categorized.category = NoneS

\* a practice name in which the pattern of the first rule occurs
C17_Witness ==
  /\ categorized.done
  /\ categorized.rules # <<>>
  /\ StartsWith(NormalizedLower(categorized.name), Practice)
  /\ categorized.name[1] = "_"
  /\ \E k \in 1..Len(categorized.rules[1].patterns) :
       Contains(NormalizedLower(categorized.name),
                Lower(categorized.rules[1].patterns[k]))
  /\ categorized.category = NoneS

\* the positions of the rules with a pattern that occurs, in any letter
\* case, in the normalized name
Matching(name, rules) ==
  {i \in 1..Len(rules) :
     \E k \in 1..Len(rules[i].patterns) :
       Contains(NormalizedLower(name), Lower(rules[i].patterns[k]))}

RosterIngestedAndRebuilt ==
  /\ AllIdle
  /\ last.path \in {"legacy", "optimized"}
  /\ last.export = <<RowA8, RowBMissing>>
  /\ rebuilt.done
  /\ Canonical(rebuilt.from) = Canonical(rebuilt.tab)
  /\ Canonical(rebuilt.tab) = Canonical(db)

\* C19: after the export with a Graded row of a@x.com (Total Score 8) and a
\* Missing row of b@x.com is ingested and the summary rebuilt, both are
\* Students of the course, a@x.com has a Submission and the summary score 8,
\* b@x.com has no Submission and an empty summary score
C19_EndToEndRoster ==
  RosterIngestedAndRebuilt =>
    \E ta, tb \in StudentsOf(schema, db, rebuilt.course) :
      \E a \in {x \in db.assignments :
                  x.course_id = rebuilt.course /\ x.assignment_id = last.aid} :
        /\ ta.email = RowA8.email /\ tb.email = RowBMissing.email
        /\ \E b \in db.submissions :
             /\ b.student_id = ta.id /\ b.assignment_id = a.id
             /\ b.total_score = Num(RowA8.total)
        /\ \A b \in db.submissions : b.student_id # tb.id
        /\ \E ea, eb \in GetSummarySheet(db, rebuilt.course) :
             /\ ea.email = ta.email /\ ea.scores[a] = Num(RowA8.total)
             /\ eb.email = tb.email /\ eb.scores[a] = None

(***************************************************************************)
(* Properties of the PrairieLearn adapter.                                 *)
(***************************************************************************)
\* what holds of _call_api and _sync_prairielearn in every state: the
\* requests of one call number at most retry_502_max; a call that has seen
\* retry_502_max responses 502 has raised; a response that is neither 200
\* nor 502 is the last of its call, which has raised; and an error ends in a
\* result with success False
AdapterBounded ==
  adapter.pc # "idle" =>
    /\ adapter.requests <= retry_502_max
    /\ adapter.requests = retry_502_max /\ adapter.status_code = 502
         => /\ adapter.pc \in {"raised", "returned"}
            /\ adapter.error = "Max retries reached on 502 error"
    /\ adapter.status_code \notin {NoStatus, 200, 502}
         => /\ adapter.pc \in {"raised", "returned"}
            /\ adapter.requests = adapter.retry_502_count + 1
            /\ adapter.error = "API returned status"
    /\ adapter.pc = "returned" /\ adapter.error # ""
         => adapter.result.success = FALSE

\* C20: a call of the PrairieLearn adapter ends whatever the responses are:
\* at most retry_502_max requests are made when every response is a 502 and
\* the call then raises, any other status than 200 and 502 raises at once,
\* and the error becomes a failed result of the source
C20_BoundedRetry ==
  /\ []AdapterBounded
  /\ (adapter.pc # "idle" ~> adapter.pc = "returned")

\* every response of a call was a 502: the call made retry_502_max requests
\* and raised, and _sync_prairielearn returned a failed result
C20_Witness ==
  /\ adapter.pc = "returned"
  /\ adapter.call = 2
  /\ adapter.status_code = 502
  /\ adapter.requests = retry_502_max
  /\ adapter.retry_502_count = retry_502_max
  /\ adapter.result.success = FALSE

(***************************************************************************)
(* Properties of the fields an ingestion refreshes.                        *)
(***************************************************************************)
\* the Assignment rows a call is about
AssignmentsOf(store, call) ==
  {a \in store.assignments :
     /\ a.assignment_id = call.aid
     /\ \E c \in store.courses :
          c.gradescope_course_id = call.course /\ c.id = a.course_id}

\* C21: after a successful ingestion of an assignment, a re-ingestion
\* included, the stored category is the one the categorizer gives for the
\* title under the rules of that call, also when that is no category
C21_CategoryRefresh ==
  AllIdle /\ last.path \in {"legacy", "optimized"} =>
    \A a \in AssignmentsOf(db, last) :
      a.category = Categorize(last.title, last.cfg.assignment_categories)

\* C22: a step rewrites the max_points of a stored Assignment only from
\* unset or zero to a positive value, so that a positive max_points never
\* decreases over the ingestions of the assignment
C22_MaxPointsMonotone ==
  [][\A a \in db.assignments, b \in db'.assignments :
       a.id = b.id /\ a.max_points # b.max_points
         => (a.max_points = None \/ a.max_points = 0) /\ b.max_points > 0]_vars

\* the Student rows of the store that belong to the course of a call
RosterOf(sch, store, call) ==
  UNION {StudentsOf(sch, store, c.id) :
           c \in {x \in store.courses : x.gradescope_course_id = call.course}}

\* process p ends, in this step and with success, a call that ran alone
EndsAlone(p) ==
  /\ InFlight(p)
  /\ run[p].prev # Overlapped
  /\ \A q \in AllProcs \ {p} : ~InFlight(q)
  /\ result'[p].done /\ result'[p].success

\* the rows of an export that are ingested and are the only row of their
\* email
SingleRows(export) ==
  {i \in 1..Len(export) :
     /\ Strip(export[i].email) # ""
     /\ export[i].status # "Missing"
     /\ \A j \in 1..Len(export) : export[j].email = export[i].email => j = i}

\* C23: when a call ingests a row of a Student of the course who is stored
\* under the row's email, the Student's legal name and sid afterwards are the
\* row's where the row carries one, and the stored ones where the row's
\* value is empty
C23_StudentRefresh ==
  [][\A p \in Procs :
       EndsAlone(p) =>
         \A i \in SingleRows(run[p].call.export) :
           LET row == run[p].call.export[i]
           IN \A t \in RosterOf(schema, run[p].start_db, run[p].call) :
                t.email = row.email =>
                  \E u \in db'.students :
                    /\ u.id = t.id
                    /\ u.legal_name = IF row.name # "" THEN row.name
                                      ELSE t.legal_name
                    /\ u.sid = IF Strip(row.sid) # "" THEN Strip(row.sid)
                               ELSE t.sid]_vars

(***************************************************************************)
(* Properties of one batch.                                                *)
(***************************************************************************)
\* the rows of an export that are followed by another row of the same
\* student (same sid, same email) and preceded by none
FirstOfSeveral(export) ==
  {i \in 1..Len(export) :
     /\ Strip(export[i].email) # "" /\ Strip(export[i].sid) # ""
     /\ export[i].status # "Missing"
     /\ \E j \in (i + 1)..Len(export) :
          export[j].email = export[i].email /\ export[j].sid = export[i].sid
     /\ \A j \in 1..(i - 1) :
          export[j].email # export[i].email /\ export[j].sid # export[i].sid}

\* C24: when a call ingests an export with several rows of one student, it
\* creates at most one Student for that student, and the student has one
\* Submission for the assignment, which carries the Total Score of the first
\* of those rows
C24_BatchDeduplication ==
  [][\A p \in Procs :
       EndsAlone(p) =>
         \A i \in FirstOfSeveral(run[p].call.export) :
           LET row == run[p].call.export[i]
               created == {t \in db'.students :
                             /\ t.email = row.email
                             /\ t.id \notin Ids(run[p].start_db.students)}
               held == {b \in db'.submissions :
                          /\ \E t \in db'.students :
                               t.email = row.email /\ t.id = b.student_id
                          /\ \E a \in AssignmentsOf(db', run[p].call) :
                               a.id = b.assignment_id}
           IN /\ Cardinality(created) <= 1
              /\ Cardinality(held) = 1
              /\ \A b \in held : b.total_score = NumText[row.total]]_vars

\* C25: after a successful ingestion for a course, the number_of_students
\* stored with the Course is the number of Student rows of that course
C25_StudentCount ==
  AllIdle /\ last.path \in {"legacy", "optimized"} =>
    \A c \in db.courses :
      c.gradescope_course_id = last.course =>
        c.number_of_students = Cardinality(StudentsOf(schema, db, c.id))

(***************************************************************************)
(* Properties of a source run without assignments.                         *)
(***************************************************************************)
\* C26: when the login of a Gradescope run fails, or the fetch of the
\* assignment list fails or gives no assignment, the run does not end in a
\* result with success true: it raises, which its caller records as a
\* failed result of the source
C26_FailedListFetch ==
  source.pc = "done" /\ source.listed = 0 =>
    source.returned.raised \/ ~source.returned.success

(***************************************************************************)
(* Properties of rebuilds that race.                                       *)
(***************************************************************************)
\* C27: whatever ingestions and rebuilds of a course overlap, the store
\* holds at most one SummarySheet row per (course, student, assignment) and
\* at most one Submission per (assignment, student)
C27_RacingRebuild ==
  /\ UniqueOn(db.summary_sheets, SummaryKey)
  /\ UniqueOn(db.submissions, AssignmentStudentKey)

\* a rebuild is about to commit rows for triples that another rebuild has
\* committed since this one looked them up
C27_Witness ==
  \E p \in Procs :
    /\ run[p].pc = "summary_commit"
    /\ db.summary_sheets # run[p].sheet_snap
    /\ ~UniqueOn(MergeTable(db.summary_sheets, run[p].sheet_snap,
                            run[p].sheet_pend), SummaryKey)

(***************************************************************************)
(* Properties of the two summary read models.                              *)
(***************************************************************************)
\* the summary of the course has been rebuilt from the rows the store holds
RebuiltAndCurrent ==
  /\ rebuilt.done
  /\ Canonical(rebuilt.from) = Canonical(rebuilt.tab)
  /\ Canonical(rebuilt.tab) = Canonical(db)

\* C28: after the summary of a course has been saved from its current
\* assignments, students and submissions, the read model of the summary
\* table and the read model computed from the Submission rows hold the same
\* number of students and the same number of assignments
C28_ReadModelsAgree ==
  RebuiltAndCurrent =>
    \A c \in db.courses :
      c.id = rebuilt.course =>
        LET cached == SummarySheetFromDb(db, c.gradescope_course_id)
            direct == SummaryDataFromDb(db, c.gradescope_course_id)
        IN /\ Cardinality(cached.students) = Cardinality(direct.students)
           /\ Cardinality(cached.assignments)
                = Cardinality(direct.assignments)

\* the summary has been saved for a course with a Student that carries no
\* course, an Assignment and a stored score, and both read models list them
C28_Witness ==
  /\ RebuiltAndCurrent
  /\ \E t \in db.students : t.course_id = None
  /\ \E e \in db.summary_sheets : e.score # None
  /\ \E c \in db.courses :
       /\ c.id = rebuilt.course
       /\ SummarySheetFromDb(db, c.gradescope_course_id).students # {}
       /\ SummarySheetFromDb(db, c.gradescope_course_id).assignments # {}

(***************************************************************************)
(* Properties of the two ingestion paths.                                  *)
(***************************************************************************)
\* write_assignment_scores_optimized run alone on the store: whether it
\* reports success and the store it leaves, for every Assignment row its
\* lookup can return
OptimizedAlone(sch, store, ids, now, call) ==
  {LET got == OptimizedCollect(call.export, v.course)
       pend == PendingStore(OptimizedMaxPoints(v, got.assignment_max_points))
       ins == InsertStudents(pend.students, v.seq.students, got.students_data)
       stored == [pend EXCEPT !.students = ins.students]
       email_to_id == EmailToId(stored.students, v.course, got.students_data)
       ups == UpsertSubmissionRows(stored.submissions, v.seq.submissions,
                v.asg, email_to_id, got.submissions_data)
       upserted == [stored EXCEPT !.submissions = ups.submissions]
       Stamped(t) ==
         LET a == CHOOSE a \in t.assignments : a.id = v.asg
         IN [t EXCEPT !.assignments =
                        Replace(@, a, [a EXCEPT !.last_synced_at = now])]
   IN IF got.raised THEN [success |-> FALSE, tab |-> store]
      ELSE IF got.students_data = <<>>
      THEN IF Constraints(sch, Stamped(pend))
           THEN [success |-> TRUE, tab |-> Stamped(pend)]
           ELSE [success |-> FALSE, tab |-> store]
      ELSE IF sch = "models" \/ ~Constraints(sch, stored)
      THEN [success |-> FALSE, tab |-> store]
      ELSE IF Constraints(sch, Stamped(upserted))
      THEN [success |-> TRUE, tab |-> Stamped(upserted)]
      ELSE [success |-> FALSE, tab |-> upserted] :
   v \in OptimizedResolve(store, ids, call.course, call.aid, call.title,
                          call.cfg)}

\* the Student rows of a store, without their primary key and course
StudentColumns(store) ==
  {[sid |-> t.sid, email |-> t.email, legal_name |-> t.legal_name] :
     t \in store.students}

\* the Submission rows of a store, with the email of their Student and the
\* Gradescope id of their Assignment in place of the foreign keys
SubmissionColumns(store) ==
  {[assignment_id |->
      (CHOOSE a \in store.assignments : a.id = b.assignment_id).assignment_id,
    email |-> (CHOOSE t \in store.students : t.id = b.student_id).email,
    total_score |-> b.total_score, max_points |-> b.max_points,
    status |-> b.status] : b \in store.submissions}

\* C29: when write_assignment_scores_to_db ingests an export alone and
\* succeeds, write_assignment_scores_optimized run on the same store with
\* the same export for the same course and assignment leaves the same
\* Student rows and the same Submission rows (same students, total_score,
\* max_points and status)
C29_PathEquivalence ==
  [][\A p \in Procs :
       EndsAlone(p) /\ run[p].call.path = "legacy" =>
         \E o \in OptimizedAlone(schema, run[p].start_db, seq, started,
                                 run[p].call) :
           /\ StudentColumns(o.tab) = StudentColumns(db')
           /\ SubmissionColumns(o.tab) = SubmissionColumns(db')]_vars

(***************************************************************************)
(* Properties of ingestion runs for different courses.                     *)
(***************************************************************************)
\* the Submission rows of the Assignments of a course
SubmissionsIn(store, course_db_id) ==
  {b \in store.submissions :
     \E a \in store.assignments :
       a.id = b.assignment_id /\ a.course_id = course_db_id}

\* the Student rows that belong to a course: the rows that carry its
\* course_id and the rows with a Submission in it
Enrolled(store, course_db_id) ==
  {t \in store.students :
     \/ t.course_id = course_db_id
     \/ \E b \in SubmissionsIn(store, course_db_id) : b.student_id = t.id}

\* the courses of the store other than the course of the call
OtherCourses(store, call) ==
  {c \in store.courses : c.gradescope_course_id # call.course}

\* the Student rows that belong to the course of the call
EnrolledInCourseOf(store, call) ==
  UNION {Enrolled(store, c.id) :
           c \in {x \in store.courses :
                    x.gradescope_course_id = call.course}}

\* C30: an ingestion run for a course leaves the Assignment and Submission
\* rows of every other course as they were, leaves every Student row that
\* belongs to another course and not to the run's course as it was, and
\* leaves the other course's number_of_students as it was
C30_CourseIsolation ==
  [][\A p \in Procs :
       EndsAlone(p) =>
         LET before == run[p].start_db
             call == run[p].call
         IN \A c \in OtherCourses(before, call) :
              /\ \E d \in db'.courses :
                   d.id = c.id /\ d.number_of_students = c.number_of_students
              /\ {a \in before.assignments : a.course_id = c.id}
                   = {a \in db'.assignments : a.course_id = c.id}
              /\ SubmissionsIn(before, c.id) = SubmissionsIn(db', c.id)
              /\ \A t \in Enrolled(before, c.id)
                            \ EnrolledInCourseOf(before, call) :
                   t \in db'.students]_vars
====
